---------------------------- MODULE Spec2Model ----------------------------
(***************************************************************************)
(* Model of the jwt package: the claims validator and the claims merge of  *)
(* claims.go, and the RSA algorithm family of rsa.go together with the     *)
(* token codec that drives it.                                             *)
(*                                                                         *)
(* The package holds no mutable state: every operation is a function of    *)
(* its arguments.  Each specification below draws the arguments of one     *)
(* group of operations from bounded sets in its Init and applies the       *)
(* operations in its actions, recording what they return.                  *)
(*   SpecValidate : validateClaims                                         *)
(*   SpecMerge    : Merge                                                  *)
(*   SpecRSA      : encodeToken / algRSA.Sign / algRSA.Verify / decodeToken*)
(***************************************************************************)
EXTENDS Integers, Sequences, FiniteSets, TLC

VARIABLES
    pc,          \* position of the caller: which operation has been applied
    t,           \* validateClaims: the time.Time argument, in ticks since the epoch
    claims,      \* validateClaims: the Claims argument
    verr,        \* validateClaims: the returned error
    primary,     \* Merge: the first operand ("claims")
    secondary,   \* Merge: the second operand ("other")
    mergeOut,    \* Merge: the returned []byte
    mergeErr,    \* Merge: the error reported to the caller
    alg,         \* the *algRSA instance in use
    signKey,     \* key handed to encodeToken / Sign
    verKey,      \* key handed to decodeToken / Verify
    custom,      \* the claims value being encoded (a map[string]interface{})
    signingInput,\* header.payload, the bytes that are signed
    signature,   \* signature bytes returned by Sign (possibly altered afterwards)
    signErr,     \* error returned by Sign
    token,       \* the compact token
    tampered,    \* whether a byte of the signature was altered after signing
    verifyErr,   \* error returned by Verify
    payload,     \* payload bytes returned by decodeToken
    decodeErr    \* error returned by decodeToken

vars == <<pc, t, claims, verr, primary, secondary, mergeOut, mergeErr,
          alg, signKey, verKey, custom, signingInput, signature, signErr,
          token, tampered, verifyErr, payload, decodeErr>>

valVars   == <<t, claims, verr>>
mergeVars == <<primary, secondary, mergeOut, mergeErr>>
rsaVars   == <<alg, signKey, verKey, custom, signingInput, signature, signErr,
               token, tampered, verifyErr, payload, decodeErr>>

-----------------------------------------------------------------------------
(* Bounds of the model *)

\* seconds since the epoch range over 0..MaxSec
MaxSec == 4
\* sub-second resolution of a time.Time: ticks per time.Second
TicksPerSecond == 4
\* longest string value of a custom claim
MaxStrLen == 1

-----------------------------------------------------------------------------
(* Errors.  nil is the absence of an error. *)

NoError              == "nil"
ErrExpired           == "token expired"
ErrNotValidYet       == "token not valid yet"
ErrIssuedInTheFuture == "token issued in the future"
ErrInvalidKey        == "ErrInvalidKey"
ErrVerification      == "crypto/rsa: verification error"
ErrTokenForm         == "MalformedToken"
ErrMarshal           == "SerializationFailed"
Pending              == "pending"

-----------------------------------------------------------------------------
(* Byte strings are sequences of 0..255; a nil slice is the empty sequence *)

Byte == 0 .. 255

Ch(c) ==
    CASE c = "{"  -> 123
      [] c = "}"  -> 125
      [] c = ","  -> 44
      [] c = ":"  -> 58
      [] c = "\"" -> 34
      [] c = "\\" -> 92
      [] c = "-"  -> 45
      [] c = "0"  -> 48
      [] c = "a"  -> 97
      [] c = "b"  -> 98
      [] c = "x"  -> 120

-----------------------------------------------------------------------------
(* Claims and validateClaims *)

\* the Claims struct; Audience is left empty throughout
Claims(nbf, iat, exp, iss) ==
    [NotBefore |-> nbf, IssuedAt |-> iat, Expiry |-> exp,
     ID |-> << >>, Issuer |-> iss, Subject |-> << >>, Audience |-> << >>]

\* t.Round(time.Second): nearest multiple of a second, halfway values round up
Round(tm, d) ==
    LET r == tm % d
    IN  IF r + r < d THEN tm - r ELSE tm + (d - r)

\* t.Unix(): whole seconds since the epoch
Unix(tm) == tm \div TicksPerSecond

\* t.Truncate(time.Second): the time rounded down to a whole second
Truncate(tm, d) == tm - (tm % d)

\* validateClaims with an exclusive expiry bound
validateClaims_ExpiryExclusive(tm, c) ==
    LET now == Unix(Round(tm, TicksPerSecond))
    IN  IF c.NotBefore > 0 /\ now < c.NotBefore THEN ErrNotValidYet
        ELSE IF c.IssuedAt > 0 /\ now < c.IssuedAt THEN ErrIssuedInTheFuture
        ELSE IF c.Expiry > 0 /\ now >= c.Expiry THEN ErrExpired
        ELSE NoError

\* validateClaims without the "is the claim set" test on the expiry
validateClaims_NoZeroSkip(tm, c) ==
    LET now == Unix(Round(tm, TicksPerSecond))
    IN  IF c.NotBefore > 0 /\ now < c.NotBefore THEN ErrNotValidYet
        ELSE IF c.IssuedAt > 0 /\ now < c.IssuedAt THEN ErrIssuedInTheFuture
        ELSE IF now > c.Expiry THEN ErrExpired
        ELSE NoError

\* validateClaims with the expiry checked first
validateClaims_ExpiryFirst(tm, c) ==
    LET now == Unix(Round(tm, TicksPerSecond))
    IN  IF c.Expiry > 0 /\ now > c.Expiry THEN ErrExpired
        ELSE IF c.NotBefore > 0 /\ now < c.NotBefore THEN ErrNotValidYet
        ELSE IF c.IssuedAt > 0 /\ now < c.IssuedAt THEN ErrIssuedInTheFuture
        ELSE NoError

validateClaims(tm, c) ==
    LET now == Unix(Round(tm, TicksPerSecond))
    IN  IF c.NotBefore > 0 /\ now < c.NotBefore THEN ErrNotValidYet
        ELSE IF c.IssuedAt > 0 /\ now < c.IssuedAt THEN ErrIssuedInTheFuture
        ELSE IF c.Expiry > 0 /\ now > c.Expiry THEN ErrExpired
        ELSE NoError

\* the values drawn for the arguments of validateClaims
Times      == 0 .. (MaxSec * TicksPerSecond + (TicksPerSecond - 1))
Timestamps == (0 - 1) .. MaxSec
Issuers    == { << >>, <<Ch("x")>> }
ClaimsSet  == { Claims(n, i, e, s) : n \in Timestamps, i \in Timestamps,
                                      e \in Timestamps, s \in Issuers }

-----------------------------------------------------------------------------
(* JSON serialization (the Marshal collaborator) *)

\* a Go value handed to Marshal / Merge: a map[string]interface{} with string
\* values, a Claims struct, or a value encoding/json cannot serialize
MapValue(m)    == [kind |-> "map",    m |-> m,     c |-> Claims(0, 0, 0, << >>)]
ClaimsValue(c) == [kind |-> "Claims", m |-> << >>, c |-> c]
ChanValue      == [kind |-> "chan",   m |-> << >>, c |-> Claims(0, 0, 0, << >>)]

RECURSIVE Digits(_)
\* decimal digits of a natural number
Digits(n) ==
    IF n < 10 THEN <<Ch("0") + n>>
    ELSE Digits(n \div 10) \o <<Ch("0") + (n % 10)>>

\* strconv formatting of an int64
FormatInt(n) == IF n < 0 THEN <<Ch("-")>> \o Digits(0 - n) ELSE Digits(n)

RECURSIVE Escape(_)
\* body of a JSON string: quote and backslash are escaped with a backslash
Escape(s) ==
    IF s = << >> THEN << >>
    ELSE (IF Head(s) \in {Ch("\""), Ch("\\")}
          THEN <<Ch("\\"), Head(s)>> ELSE <<Head(s)>>) \o Escape(Tail(s))

\* a JSON string literal
Quote(s) == <<Ch("\"")>> \o Escape(s) \o <<Ch("\"")>>

\* one member of a JSON object: "name":value
Member(name, valueBytes) == Quote(name) \o <<Ch(":")>> \o valueBytes

RECURSIVE LexLess(_, _)
\* byte-wise order of two strings
LexLess(a, b) ==
    IF a = << >> THEN b # << >>
    ELSE IF b = << >> THEN FALSE
    ELSE IF Head(a) # Head(b) THEN Head(a) < Head(b)
    ELSE LexLess(Tail(a), Tail(b))

RECURSIVE SortedKeys(_)
\* encoding/json writes the keys of a map in sorted order
SortedKeys(S) ==
    IF S = {} THEN << >>
    ELSE LET k == CHOOSE x \in S : \A y \in S \ {x} : LexLess(x, y)
         IN  <<k>> \o SortedKeys(S \ {k})

\* the members a value serializes to, in order (omitempty drops zero fields)
Members(v) ==
    IF v.kind = "map"
    THEN LET ks == SortedKeys(DOMAIN v.m)
         IN  [i \in 1 .. Len(ks) |-> Member(ks[i], Quote(v.m[ks[i]]))]
    ELSE LET c == v.c
         IN  (IF c.NotBefore # 0
                THEN << Member(<<110, 98, 102>>, FormatInt(c.NotBefore)) >> ELSE << >>)
          \o (IF c.IssuedAt # 0
                THEN << Member(<<105, 97, 116>>, FormatInt(c.IssuedAt)) >> ELSE << >>)
          \o (IF c.Expiry # 0
                THEN << Member(<<101, 120, 112>>, FormatInt(c.Expiry)) >> ELSE << >>)
          \o (IF c.ID # << >>
                THEN << Member(<<106, 116, 105>>, Quote(c.ID)) >> ELSE << >>)
          \o (IF c.Issuer # << >>
                THEN << Member(<<105, 115, 115>>, Quote(c.Issuer)) >> ELSE << >>)
          \o (IF c.Subject # << >>
                THEN << Member(<<115, 117, 98>>, Quote(c.Subject)) >> ELSE << >>)

RECURSIVE Join(_)
\* members separated by single commas
Join(ms) ==
    IF ms = << >> THEN << >>
    ELSE IF Len(ms) = 1 THEN ms[1]
    ELSE ms[1] \o <<Ch(",")>> \o Join(Tail(ms))

\* the JSON object with the given members
ObjectBytes(ms) == <<Ch("{")>> \o Join(ms) \o <<Ch("}")>>

\* Marshal(v): the JSON bytes of v, or an error for an unsupported value
Marshal(v) ==
    IF v.kind = "chan" THEN [bytes |-> << >>, err |-> ErrMarshal]
    ELSE [bytes |-> ObjectBytes(Members(v)), err |-> NoError]

-----------------------------------------------------------------------------
(* Merge *)

Merge(c, other) ==
    LET claimsM == Marshal(c)
        otherM  == Marshal(other)
        claimsB == claimsM.bytes
        otherB  == otherM.bytes
    IN  IF claimsM.err # NoError THEN << >>
        ELSE IF otherM.err # NoError THEN << >>
        ELSE IF Len(otherB) = 0 THEN claimsB
        ELSE SubSeq(claimsB, 1, Len(claimsB) - 1) \o <<Ch(",")>> \o Tail(otherB)

\* the values drawn for the operands of Merge
KeyNames  == { <<Ch("a")>>, <<Ch("b")>> }
Alphabet  == { Ch("x"), Ch("\"") }
RECURSIVE StringsUpTo(_)
StringsUpTo(n) ==
    IF n = 0 THEN { << >> }
    ELSE LET S == StringsUpTo(n - 1)
         IN  S \cup { Append(s, a) : s \in S, a \in Alphabet }
Strings   == StringsUpTo(MaxStrLen)
Maps      == UNION { [ks -> Strings] : ks \in SUBSET KeyNames }
MergeClaimsSet ==
    { Claims(n, 0, e, s) : n \in {0, 1}, e \in {0, 10 + MaxSec}, s \in Issuers }
Operands  == { MapValue(m) : m \in Maps }
             \cup { ClaimsValue(c) : c \in MergeClaimsSet }
             \cup { ChanValue }

-----------------------------------------------------------------------------
(* JSON parsing (the Unmarshal collaborator) *)

ParseFail == [ok |-> FALSE, members |-> << >>]

RECURSIVE ReadString(_, _, _)
\* reads the body of a string literal from position i, after the opening quote
ReadString(b, i, acc) ==
    IF i > Len(b) THEN [ok |-> FALSE, str |-> << >>, next |-> i]
    ELSE IF b[i] = Ch("\"") THEN [ok |-> TRUE, str |-> acc, next |-> i + 1]
    ELSE IF b[i] = Ch("\\")
    THEN IF i + 1 <= Len(b) /\ b[i + 1] \in {Ch("\""), Ch("\\")}
         THEN ReadString(b, i + 2, Append(acc, b[i + 1]))
         ELSE [ok |-> FALSE, str |-> << >>, next |-> i]
    ELSE ReadString(b, i + 1, Append(acc, b[i]))

RECURSIVE ReadDigits(_, _)
\* position after the run of decimal digits starting at i
ReadDigits(b, i) ==
    IF i <= Len(b) /\ b[i] >= Ch("0") /\ b[i] <= Ch("0") + 9
    THEN ReadDigits(b, i + 1) ELSE i

\* a string or a number starting at position i
ReadValue(b, i) ==
    IF i > Len(b) THEN [ok |-> FALSE, isStr |-> FALSE, str |-> << >>, next |-> i]
    ELSE IF b[i] = Ch("\"")
    THEN LET r == ReadString(b, i + 1, << >>)
         IN  [ok |-> r.ok, isStr |-> TRUE, str |-> r.str, next |-> r.next]
    ELSE LET j == IF b[i] = Ch("-") THEN i + 1 ELSE i
             e == ReadDigits(b, j)
         IN  [ok |-> e > j, isStr |-> FALSE, str |-> << >>, next |-> e]

RECURSIVE ReadMembers(_, _, _)
\* members of an object from position i, which follows "{" or ","
ReadMembers(b, i, acc) ==
    IF i > Len(b) \/ b[i] # Ch("\"") THEN ParseFail
    ELSE LET k == ReadString(b, i + 1, << >>)
         IN  IF ~k.ok \/ k.next > Len(b) \/ b[k.next] # Ch(":") THEN ParseFail
             ELSE LET v == ReadValue(b, k.next + 1)
                      m == [key |-> k.str, isStr |-> v.isStr, str |-> v.str,
                            raw |-> SubSeq(b, k.next + 1, v.next - 1)]
                  IN  IF ~v.ok \/ v.next > Len(b) THEN ParseFail
                      ELSE IF b[v.next] = Ch(",")
                           THEN ReadMembers(b, v.next + 1, Append(acc, m))
                      ELSE IF b[v.next] = Ch("}") /\ v.next = Len(b)
                           THEN [ok |-> TRUE, members |-> Append(acc, m)]
                      ELSE ParseFail

\* the members of a JSON object text, or failure when the text is not one object
ParseObject(b) ==
    IF Len(b) < 2 \/ b[1] # Ch("{") THEN ParseFail
    ELSE IF Len(b) = 2 /\ b[2] = Ch("}") THEN [ok |-> TRUE, members |-> << >>]
    ELSE ReadMembers(b, 2, << >>)

\* json.Unmarshal(payload, &map): the last occurrence of a key wins
Unmarshal(b) ==
    LET p  == ParseObject(b)
        ks == { p.members[i].key : i \in 1 .. Len(p.members) }
        last(k) == CHOOSE i \in 1 .. Len(p.members) :
                       /\ p.members[i].key = k
                       /\ \A j \in 1 .. Len(p.members) :
                              p.members[j].key = k => j <= i
    IN  [ok |-> p.ok, m |-> [k \in ks |-> p.members[last(k)].str]]

-----------------------------------------------------------------------------
(* Keys and the RSA primitive (crypto/rsa, PKCS #1 v1.5) *)

\* a key as the algorithm receives it: an interface value with a dynamic type
Key(kind, n, e, d) == [kind |-> kind, N |-> n, E |-> e, D |-> d]

PrivateKeys == { Key("*rsa.PrivateKey", 3233, 17, 2753),
                 Key("*rsa.PrivateKey", 3127, 3, 2011) }

\* &privateKey.PublicKey
PublicOf(priv) == Key("*rsa.PublicKey", priv.N, priv.E, 0)

PublicKeys == { PublicOf(k) : k \in PrivateKeys }

\* keys of other families: an HMAC secret, a nil interface
OtherKeys == { Key("[]byte", 0, 0, 0), Key("nil", 0, 0, 0) }

Keys == PrivateKeys \cup PublicKeys \cup OtherKeys

\* the RSA algorithm instances
Algs == { [name |-> <<82, 83, 50, 53, 54>>, hasher |-> 1],
          [name |-> <<82, 83, 51, 56, 52>>, hasher |-> 2],
          [name |-> <<82, 83, 53, 49, 50>>, hasher |-> 3] }

RECURSIVE HashSum(_, _, _, _)
\* position-weighted sum of the bytes data[lo..hi], by halves
HashSum(hasher, data, lo, hi) ==
    IF lo > hi THEN 0
    ELSE IF lo = hi THEN (data[lo] + hasher) * ((lo % 7) + 1)
    ELSE LET mid == (lo + hi) \div 2
         IN  HashSum(hasher, data, lo, mid) + HashSum(hasher, data, mid + 1, hi)

\* h.Write(data); h.Sum(nil): a one-byte digest that depends on the hash function
Hash(hasher, data) == (HashSum(hasher, data, 1, Len(data)) + hasher) % 251

\* the encoded message: the digest behind the prefix naming the hash function
EncodedMessage(hasher, hashed) == hasher * 256 + hashed

RECURSIVE ModExp(_, _, _)
\* b^e mod n
ModExp(b, e, n) ==
    IF e = 0 THEN 1 % n
    ELSE LET h == ModExp(b, e \div 2, n)
             q == (h * h) % n
         IN  IF e % 2 = 1 THEN (q * (b % n)) % n ELSE q

RECURSIVE ByteLen(_)
\* size of the modulus in bytes
ByteLen(n) == IF n < 256 THEN 1 ELSE 1 + ByteLen(n \div 256)

RECURSIVE IntToBytes(_, _)
\* big-endian bytes of x, padded to k bytes
IntToBytes(x, k) ==
    IF k = 0 THEN << >> ELSE Append(IntToBytes(x \div 256, k - 1), x % 256)

RECURSIVE BytesToInt(_)
\* big-endian integer of a byte string
BytesToInt(b) ==
    IF b = << >> THEN 0
    ELSE BytesToInt(SubSeq(b, 1, Len(b) - 1)) * 256 + b[Len(b)]

\* rsa.SignPKCS1v15(rand.Reader, privateKey, hasher, hashed)
SignPKCS1v15(priv, hasher, hashed) ==
    [sig |-> IntToBytes(ModExp(EncodedMessage(hasher, hashed), priv.D, priv.N),
                        ByteLen(priv.N)),
     err |-> NoError]

\* rsa.VerifyPKCS1v15(publicKey, hasher, hashed, signature)
VerifyPKCS1v15(pub, hasher, hashed, sig) ==
    IF Len(sig) # ByteLen(pub.N) THEN ErrVerification
    ELSE IF BytesToInt(sig) >= pub.N THEN ErrVerification
    ELSE IF ModExp(BytesToInt(sig), pub.E, pub.N) = EncodedMessage(hasher, hashed)
         THEN NoError
    ELSE ErrVerification

-----------------------------------------------------------------------------
(* algRSA *)

\* Sign that takes any RSA key, public ones included
Sign_AcceptsPublicKey(a, headerAndPayload, key) ==
    IF key.kind \notin {"*rsa.PrivateKey", "*rsa.PublicKey"}
    THEN [sig |-> << >>, err |-> ErrInvalidKey]
    ELSE SignPKCS1v15(key, a.hasher, Hash(a.hasher, headerAndPayload))

Sign(a, headerAndPayload, key) ==
    IF key.kind # "*rsa.PrivateKey"
    THEN [sig |-> << >>, err |-> ErrInvalidKey]
    ELSE SignPKCS1v15(key, a.hasher, Hash(a.hasher, headerAndPayload))

\* Verify without the fallback to the public half of a private key
Verify_RejectsPrivateKey(a, headerAndPayload, sig, key) ==
    IF key.kind = "*rsa.PublicKey"
    THEN VerifyPKCS1v15(key, a.hasher, Hash(a.hasher, headerAndPayload), sig)
    ELSE ErrInvalidKey

\* Verify that drops the result of rsa.VerifyPKCS1v15
Verify_DropsResult(a, headerAndPayload, sig, key) ==
    IF key.kind \in {"*rsa.PublicKey", "*rsa.PrivateKey"}
    THEN NoError
    ELSE ErrInvalidKey

Verify(a, headerAndPayload, sig, key) ==
    IF key.kind = "*rsa.PublicKey"
    THEN VerifyPKCS1v15(key, a.hasher, Hash(a.hasher, headerAndPayload), sig)
    ELSE IF key.kind = "*rsa.PrivateKey"
    THEN VerifyPKCS1v15(PublicOf(key), a.hasher,
                        Hash(a.hasher, headerAndPayload), sig)
    ELSE ErrInvalidKey

-----------------------------------------------------------------------------
(* Token codec: base64url without padding, encodeToken, decodeToken *)

\* the character of a 6-bit value in the URL-safe alphabet:
\* A-Z (65..), a-z (97..), 0-9 (48..), '-' (45), '_' (95)
B64Char(v) ==
    IF v < 26 THEN 65 + v
    ELSE IF v < 52 THEN 97 + (v - 26)
    ELSE IF v < 62 THEN 48 + (v - 52)
    ELSE IF v = 62 THEN 45 ELSE 95

\* the 6-bit value of a character, or -1 outside the alphabet
B64Val(c) ==
    IF c >= 65 /\ c <= 90 THEN c - 65
    ELSE IF c >= 97 /\ c <= 122 THEN c - 97 + 26
    ELSE IF c >= 48 /\ c <= 57 THEN c - 48 + 52
    ELSE IF c = 45 THEN 62
    ELSE IF c = 95 THEN 63
    ELSE 0 - 1

RECURSIVE Base64EncodeFrom(_, _)
\* the characters for the bytes of b from position i on, three bytes at a time
Base64EncodeFrom(b, i) ==
    LET n == Len(b) - i + 1
    IN  IF n <= 0 THEN << >>
        ELSE IF n = 1
        THEN << B64Char(b[i] \div 4), B64Char((b[i] % 4) * 16) >>
        ELSE IF n = 2
        THEN << B64Char(b[i] \div 4),
                B64Char((b[i] % 4) * 16 + b[i + 1] \div 16),
                B64Char((b[i + 1] % 16) * 4) >>
        ELSE << B64Char(b[i] \div 4),
                B64Char((b[i] % 4) * 16 + b[i + 1] \div 16),
                B64Char((b[i + 1] % 16) * 4 + b[i + 2] \div 64),
                B64Char(b[i + 2] % 64) >> \o Base64EncodeFrom(b, i + 3)

\* base64.RawURLEncoding.EncodeToString
Base64Encode(b) == Base64EncodeFrom(b, 1)

RECURSIVE Base64DecodeFrom(_, _)
\* the bytes for the characters of s from position i on, four characters at a
\* time; leftover bits of the last group are dropped
Base64DecodeFrom(s, i) ==
    LET n  == Len(s) - i + 1
        v1 == B64Val(s[i])
        v2 == B64Val(s[i + 1])
        v3 == B64Val(s[i + 2])
        v4 == B64Val(s[i + 3])
    IN  IF n < 2 THEN << >>
        ELSE IF n = 2 THEN << v1 * 4 + v2 \div 16 >>
        ELSE IF n = 3
        THEN << v1 * 4 + v2 \div 16, (v2 % 16) * 16 + v3 \div 4 >>
        ELSE << v1 * 4 + v2 \div 16, (v2 % 16) * 16 + v3 \div 4,
                (v3 % 4) * 64 + v4 >> \o Base64DecodeFrom(s, i + 4)

\* base64.RawURLEncoding.DecodeString
Base64Decode(s) ==
    IF (\E i \in 1 .. Len(s) : B64Val(s[i]) < 0) \/ Len(s) % 4 = 1
    THEN [bytes |-> << >>, err |-> ErrTokenForm]
    ELSE [bytes |-> Base64DecodeFrom(s, 1), err |-> NoError]

\* {"alg":"<name>","typ":"JWT"}
HeaderBytes(a) ==
    ObjectBytes(<< Member(<<97, 108, 103>>, Quote(a.name)),
                   Member(<<116, 121, 112>>, Quote(<<74, 87, 84>>)) >>)

\* the separator, an ASCII period
Sep == <<46>>

encodeToken(a, key, claimsValue) ==
    LET pm    == Marshal(claimsValue)
        input == Base64Encode(HeaderBytes(a)) \o Sep \o Base64Encode(pm.bytes)
        sg    == Sign(a, input, key)
    IN  IF pm.err # NoError
        THEN [token |-> << >>, input |-> << >>, sig |-> << >>,
              signErr |-> Pending, err |-> pm.err]
        ELSE IF sg.err # NoError
        THEN [token |-> << >>, input |-> input, sig |-> sg.sig,
              signErr |-> sg.err, err |-> sg.err]
        ELSE [token |-> input \o Sep \o Base64Encode(sg.sig), input |-> input,
              sig |-> sg.sig, signErr |-> NoError, err |-> NoError]

\* positions of the separators of a token
SepPositions(tok) == { i \in 1 .. Len(tok) : tok[i] = 46 }

decodeToken(a, key, tok) ==
    LET P     == SepPositions(tok)
        p1    == CHOOSE p \in P : \A q \in P : p <= q
        p2    == CHOOSE p \in P : \A q \in P : q <= p
        hseg  == SubSeq(tok, 1, p1 - 1)
        pseg  == SubSeq(tok, p1 + 1, p2 - 1)
        sseg  == SubSeq(tok, p2 + 1, Len(tok))
        hd    == Base64Decode(hseg)
        pl    == Base64Decode(pseg)
        sg    == Base64Decode(sseg)
        input == SubSeq(tok, 1, p2 - 1)
        ve    == Verify(a, input, sg.bytes, key)
    IN  IF Cardinality(P) # 2
        THEN [payload |-> << >>, verifyErr |-> Pending, err |-> ErrTokenForm]
        ELSE IF hd.err # NoError \/ pl.err # NoError \/ sg.err # NoError
        THEN [payload |-> << >>, verifyErr |-> Pending, err |-> ErrTokenForm]
        ELSE IF ve # NoError
        THEN [payload |-> << >>, verifyErr |-> ve, err |-> ve]
        ELSE [payload |-> pl.bytes, verifyErr |-> NoError, err |-> NoError]

-----------------------------------------------------------------------------
(* The state machine *)

\* the claims values that are encoded into tokens
TokenClaims ==
    { MapValue(<< >>),
      MapValue([k \in {<<Ch("a")>>} |-> <<Ch("\"")>>]),
      MapValue([k \in KeyNames |-> <<Ch("x")>>]) }

NoClaims == Claims(0, 0, 0, << >>)
NoKey    == Key("nil", 0, 0, 0)
NoAlg    == CHOOSE a \in Algs : a.hasher = 1

ValidateIdle ==
    /\ t = 0 /\ claims = NoClaims /\ verr = Pending

MergeIdle ==
    /\ primary = ChanValue /\ secondary = ChanValue
    /\ mergeOut = << >> /\ mergeErr = Pending

RSAIdle ==
    /\ alg = NoAlg /\ signKey = NoKey /\ verKey = NoKey
    /\ custom = ChanValue

RSAResultsPending ==
    /\ signingInput = << >> /\ signature = << >> /\ signErr = Pending
    /\ token = << >> /\ tampered = FALSE
    /\ verifyErr = Pending /\ payload = << >> /\ decodeErr = Pending

InitValidate ==
    /\ pc = "validate"
    /\ t \in Times
    /\ claims \in ClaimsSet
    /\ verr = Pending
    /\ MergeIdle /\ RSAIdle /\ RSAResultsPending

InitMerge ==
    /\ pc = "merge"
    /\ primary \in Operands
    /\ secondary \in Operands
    /\ mergeOut = << >>
    /\ mergeErr = Pending
    /\ ValidateIdle /\ RSAIdle /\ RSAResultsPending

InitRSA ==
    /\ pc = "encode"
    /\ alg \in Algs
    /\ signKey \in Keys
    /\ verKey \in Keys
    /\ custom \in TokenClaims
    /\ RSAResultsPending
    /\ ValidateIdle /\ MergeIdle

\* the caller applies validateClaims to the current time and the claims
ValidateClaims ==
    /\ pc = "validate"
    /\ verr' = validateClaims(t, claims)
    /\ pc' = "validated"
    /\ UNCHANGED <<t, claims, mergeVars, rsaVars>>

\* the caller merges the two operands; Merge has a single result, the bytes,
\* so no error reaches the caller
DoMerge ==
    /\ pc = "merge"
    /\ mergeOut' = Merge(primary, secondary)
    /\ mergeErr' = NoError
    /\ pc' = "merged"
    /\ UNCHANGED <<primary, secondary, valVars, rsaVars>>

\* encodeToken(alg, signKey, claims), which calls alg.Sign
EncodeToken ==
    /\ pc = "encode"
    /\ LET r == encodeToken(alg, signKey, custom)
       IN  /\ token' = r.token
           /\ signingInput' = r.input
           /\ signature' = r.sig
           /\ signErr' = r.signErr
           /\ pc' = IF r.err = NoError THEN "encoded" ELSE "failed"
    /\ UNCHANGED <<alg, signKey, verKey, custom, tampered, verifyErr, payload,
                   decodeErr, valVars, mergeVars>>

\* somebody alters one byte of the signature of the token in transit
TamperSignature ==
    /\ pc = "encoded"
    /\ ~tampered
    /\ \E i \in 1 .. Len(signature) : \E b \in Byte \ {signature[i]} :
           /\ signature' = [signature EXCEPT ![i] = b]
           /\ token' = signingInput \o Sep \o Base64Encode(signature')
    /\ tampered' = TRUE
    /\ UNCHANGED <<pc, alg, signKey, verKey, custom, signingInput, signErr,
                   verifyErr, payload, decodeErr, valVars, mergeVars>>

\* decodeToken(alg, verKey, token), which calls alg.Verify
DecodeToken ==
    /\ pc = "encoded"
    /\ LET r == decodeToken(alg, verKey, token)
       IN  /\ payload' = r.payload
           /\ verifyErr' = r.verifyErr
           /\ decodeErr' = r.err
    /\ pc' = "decoded"
    /\ UNCHANGED <<alg, signKey, verKey, custom, signingInput, signature,
                   signErr, token, tampered, valVars, mergeVars>>

NextValidate == ValidateClaims
NextMerge    == DoMerge
NextRSA      == EncodeToken \/ TamperSignature \/ DecodeToken

SpecValidate == InitValidate /\ [][NextValidate]_vars
SpecMerge    == InitMerge /\ [][NextMerge]_vars
SpecRSA      == InitRSA /\ [][NextRSA]_vars

Init == InitValidate \/ InitMerge \/ InitRSA
Next == ValidateClaims \/ DoMerge \/ EncodeToken \/ TamperSignature \/ DecodeToken
Spec == Init /\ [][Next]_vars

-----------------------------------------------------------------------------
(* Properties of the token round trip and of algRSA (SpecRSA) *)

\* the verification key is the public half of the signing key or that key itself
MatchingKey == signKey \in PrivateKeys /\ verKey \in {signKey, PublicOf(signKey)}

\* C1: a token encoded with a private key decodes without error under the
\* matching public key and under the private key itself, Verify returning nil,
\* and the payload unmarshals to the claims that were encoded.
RoundTrip ==
    (pc = "decoded" /\ ~tampered /\ MatchingKey) =>
        /\ Verify(alg, signingInput, signature, verKey) = NoError
        /\ verifyErr = NoError
        /\ decodeErr = NoError
        /\ Unmarshal(payload).ok
        /\ Unmarshal(payload).m = custom.m

RoundTripWitness ==
    /\ pc = "decoded" /\ ~tampered
    /\ signKey \in PrivateKeys /\ verKey = signKey
    /\ DOMAIN custom.m = KeyNames
    /\ decodeErr = NoError
    /\ Unmarshal(payload).m = custom.m

\* C2: after any single byte of the signature of a valid token is changed,
\* verification with the matching key fails with the verification error of the
\* RSA primitive, which is not ErrInvalidKey, and no payload is returned.
TamperDetected ==
    (pc = "decoded" /\ tampered /\ MatchingKey) =>
        /\ Verify(alg, signingInput, signature, verKey) = ErrVerification
        /\ verifyErr = ErrVerification
        /\ verifyErr # ErrInvalidKey
        /\ decodeErr = ErrVerification
        /\ payload = << >>

TamperDetectedWitness ==
    /\ pc = "decoded" /\ tampered
    /\ signKey \in PrivateKeys /\ verKey = PublicOf(signKey)
    /\ verifyErr = ErrVerification

\* C3: Sign with a key that is not an RSA private key returns ErrInvalidKey and
\* no signature; Verify with a key that is neither an RSA public nor an RSA
\* private key returns ErrInvalidKey whatever the input and the signature are.
KeyFamilyEnforced ==
    /\ (pc # "encode" /\ signKey \notin PrivateKeys) =>
           /\ pc = "failed"
           /\ signErr = ErrInvalidKey
           /\ signature = << >>
           /\ token = << >>
    /\ (pc = "decoded" /\ verKey \in OtherKeys) =>
           /\ verifyErr = ErrInvalidKey
           /\ decodeErr = ErrInvalidKey
           /\ payload = << >>
    /\ \A k \in Keys \ PrivateKeys :
           Sign(alg, signingInput, k) = [sig |-> << >>, err |-> ErrInvalidKey]
    /\ \A k \in OtherKeys :
           Verify(alg, signingInput, signature, k) = ErrInvalidKey

KeyFamilyEnforcedWitness ==
    /\ pc = "decoded" /\ tampered
    /\ verKey \in OtherKeys
    /\ verifyErr = ErrInvalidKey
    /\ Sign(alg, signingInput, PublicOf(signKey)).err = ErrInvalidKey

-----------------------------------------------------------------------------
(* Properties of validateClaims (SpecValidate) *)

\* the value the validator compares the claims with
Now == Unix(Round(t, TicksPerSecond))

WholeSecond == t % TicksPerSecond = 0

\* C4: the current time is rounded down to whole seconds: a time with a
\* sub-second part gives the result of the whole second it lies in; so a time
\* in [Expiry, Expiry + 1s) passes and a time in [NotBefore - 1s, NotBefore)
\* fails with ErrNotValidYet.
RoundsDown ==
    (pc = "validated" /\ ~WholeSecond) =>
        /\ verr = validateClaims(Truncate(t, TicksPerSecond), claims)
        /\ (claims.Expiry > 0 /\ claims.NotBefore <= 0 /\ claims.IssuedAt <= 0
            /\ t \div TicksPerSecond = claims.Expiry) => verr = NoError
        /\ (claims.NotBefore > 0
            /\ t \div TicksPerSecond = claims.NotBefore - 1) => verr = ErrNotValidYet

ZeroClaimsSkip ==
    pc = "validated" =>
        /\ (claims.NotBefore = 0 /\ claims.IssuedAt = 0 /\ claims.Expiry = 0) =>
               verr = NoError
        /\ verr = ErrNotValidYet => claims.NotBefore > 0
        /\ verr = ErrIssuedInTheFuture => claims.IssuedAt > 0
        /\ verr = ErrExpired => claims.Expiry > 0

ZeroClaimsSkipWitness ==
    /\ pc = "validated"
    /\ claims.NotBefore = 0 /\ claims.IssuedAt = 0 /\ claims.Expiry = 0
    /\ claims.Issuer # << >>
    /\ t > TicksPerSecond
    /\ verr = NoError

\* C10: the checks run in the order not-before, issued-at, expiry and only the
\* first violated one is reported; a violated not-before hides a violated
\* expiry, and a violated issued-at hides a violated expiry.
ChecksOrdered ==
    pc = "validated" =>
        LET nbfViolated == claims.NotBefore > 0 /\ Now < claims.NotBefore
            iatViolated == claims.IssuedAt > 0 /\ Now < claims.IssuedAt
            expViolated == claims.Expiry > 0 /\ Now > claims.Expiry
        IN  /\ nbfViolated => verr = ErrNotValidYet
            /\ (~nbfViolated /\ iatViolated) => verr = ErrIssuedInTheFuture
            /\ (~nbfViolated /\ ~iatViolated /\ expViolated) => verr = ErrExpired
            /\ (~nbfViolated /\ ~iatViolated /\ ~expViolated) => verr = NoError

ChecksOrderedWitness ==
    /\ pc = "validated"
    /\ claims.Expiry > 0 /\ Now > claims.Expiry
    /\ claims.NotBefore > 0 /\ Now < claims.NotBefore
    /\ verr = ErrNotValidYet

-----------------------------------------------------------------------------
(* Properties of Merge (SpecMerge) *)

Serializable(v) == Marshal(v).err = NoError

\* C6: when the secondary serializes to the empty object, Merge returns exactly
\* the serialization of the primary.
MergeEmptySecondary ==
    (pc = "merged" /\ Serializable(primary) /\ Serializable(secondary)
     /\ Marshal(secondary).bytes = ObjectBytes(<< >>)) =>
        mergeOut = Marshal(primary).bytes

\* C7: for operands that both serialize to objects, empty ones included, the
\* result is one well-formed JSON object whose members are the members of the
\* primary followed by the members of the secondary.
MergeFlatObject ==
    (pc = "merged" /\ Serializable(primary) /\ Serializable(secondary)) =>
        LET p == ParseObject(mergeOut)
        IN  /\ p.ok
            /\ [i \in 1 .. Len(p.members) |->
                   Member(p.members[i].key, p.members[i].raw)]
               = Members(primary) \o Members(secondary)

\* C9: a failed serialization of either operand reaches the caller of Merge as
\* an error.
MergeReportsErrors ==
    (pc = "merged" /\ (~Serializable(primary) \/ ~Serializable(secondary))) =>
        mergeErr = ErrMarshal

=============================================================================
